---- MODULE Spec2Model ----
(***************************************************************************)
(* Verification model of the number-line scale engines of this repository: *)
(*   - the subdivision design   (src/unnamed/part_005),                    *)
(*   - the periodic design      (src/lib/number-line.ts),                  *)
(*   - the baseCoverage design  (src/dist/number-line.js).                 *)
(* Numbers are exact extended rationals <<n, d>> (d >= 0, lowest terms):   *)
(* <<1,0>> is Infinity, <<-1,0>> is -Infinity and <<0,0>> is NaN, so the   *)
(* outcome of a division by zero is a value as in JavaScript.              *)
(***************************************************************************)
EXTENDS Integers, Sequences, FiniteSets, TLC

VARIABLES design, options, nl, call, steps, history

vars == <<design, options, nl, call, steps, history>>

(* Number of state-changing calls explored after construction. *)
MaxSteps == 3

----------------------------------------------------------------------------
(* Exact arithmetic standing for the JavaScript number operations.         *)

Abs(n) == IF n < 0 THEN -n ELSE n

Sgn(n) == IF n < 0 THEN -1 ELSE IF n > 0 THEN 1 ELSE 0

RECURSIVE Gcd(_, _)
Gcd(a, b) == IF b = 0 THEN a ELSE Gcd(b, a % b)

Q(n, d) ==
    IF d = 0 THEN <<Sgn(n), 0>>
    ELSE LET g == Gcd(Abs(n), Abs(d))
             s == IF d < 0 THEN -1 ELSE 1
         IN  <<(s * n) \div g, (s * d) \div g>>

I(n) == <<n, 1>>

NaN == <<0, 0>>

Infinity == <<1, 0>>

IsNaN(x) == x = NaN

IsFinite(x) == x[2] # 0

Neg(x) == <<-x[1], x[2]>>

Add(x, y) ==
    IF IsNaN(x) \/ IsNaN(y) THEN NaN
    ELSE IF ~IsFinite(x) /\ ~IsFinite(y) THEN (IF x = y THEN x ELSE NaN)
    ELSE IF ~IsFinite(x) THEN x
    ELSE IF ~IsFinite(y) THEN y
    ELSE Q(x[1] * y[2] + y[1] * x[2], x[2] * y[2])

Sub(x, y) == Add(x, Neg(y))

Mul(x, y) == Q(x[1] * y[1], x[2] * y[2])

Recip(x) == IF x[1] < 0 THEN <<-x[2], -x[1]>> ELSE <<x[2], x[1]>>

Div(x, y) == Mul(x, Recip(y))

Lt(x, y) ==
    /\ ~IsNaN(x)
    /\ ~IsNaN(y)
    /\ IF ~IsFinite(x) /\ ~IsFinite(y) THEN x[1] < y[1]
       ELSE x[1] * y[2] < y[1] * x[2]

Eq(x, y) == ~IsNaN(x) /\ ~IsNaN(y) /\ x = y

Le(x, y) == Lt(x, y) \/ Eq(x, y)

Gt(x, y) == Lt(y, x)

Ge(x, y) == Le(y, x)

(* Math.floor, Math.ceil, Math.trunc, Math.abs *)
Floor(x) == IF IsFinite(x) THEN <<x[1] \div x[2], 1>> ELSE x

Ceil(x) == Neg(Floor(Neg(x)))

Trunc(x) == IF x[1] >= 0 THEN Floor(x) ELSE Ceil(x)

MathAbs(x) == <<Abs(x[1]), x[2]>>

(* The JavaScript remainder x % y: the result takes the sign of x. *)
JsMod(x, y) ==
    IF IsNaN(x) \/ IsNaN(y) \/ ~IsFinite(x) \/ y[1] = 0 THEN NaN
    ELSE IF ~IsFinite(y) THEN x
    ELSE Sub(x, Mul(Trunc(Div(x, y)), y))

----------------------------------------------------------------------------
(* Free utility functions.                                                 *)

rangeMapper(x, a, b, c, d) == Add(Mul(Div(Sub(x, a), Sub(b, a)), Sub(d, c)), c)

isActuallyZero(n) == Eq(MathAbs(n), I(0))

----------------------------------------------------------------------------
(* Subdivision design: class NumberLine of src/unnamed/part_005.            *)
(* An instance is the record nl of its private fields; every method is an   *)
(* operator from (options, instance, arguments) to the instance after the   *)
(* call together with the returned value.                                    *)

Sub_isSortedInStrictlyDescendingOrder(arr) ==
    \A i \in 2..Len(arr) : ~Ge(arr[i], arr[i - 1])

(* The message of the Error initialize throws, "none" when it returns. *)
Sub_initializeError(o) ==
    IF Lt(o.initialMagnification, I(0)) THEN "Initial Magnfication can never be negative"
    ELSE IF Le(o.stretchModulo, I(1)) THEN "Stretch modulo cannot be <=1"
    ELSE IF ~Sub_isSortedInStrictlyDescendingOrder(o.subdivisionFallout)
        THEN "Subdivision fallout is not sorted in descending order"
    ELSE IF Len(o.subdivisionFallout) > 0
            /\ Le(o.subdivisionFallout[Len(o.subdivisionFallout)], I(0))
        THEN "Last value of subdivision fallout cannot be 0 or negative"
    ELSE IF Len(o.subdivisionFallout) > 0
            /\ Gt(o.subdivisionFallout[1], o.baseUnitValue)
        THEN "First subdivision cannot be greater than base unit length"
    ELSE "none"

Sub_withinBreakpointRange(o, l) ==
    Ge(l, o.breakpoints[1]) /\ Le(l, o.breakpoints[2])

(* unitScaleCategory once startingMagnification (line 320) is known. *)
Sub_categoryFrom(o, m, startingMagnification, subdivisionIndex) ==
    IF Lt(m, startingMagnification) THEN "above"
    ELSE IF Lt(subdivisionIndex, I(Len(o.subdivisionFallout)))
         THEN IF Gt(o.subdivisionFallout[subdivisionIndex[1] + 1],
                    o.subdivisionFallout[Len(o.subdivisionFallout)])
              THEN "within" ELSE "last"
         ELSE "last"

(* Faulty variant: the index is rounded up. *)
Sub_subdivisionIndex_roundsUp(o, m) ==
    Ceil(Div(Sub(m, Div(o.baseUnitValue, o.subdivisionFallout[1])), o.stretchModulo))

Sub_subdivisionIndex(o, m) ==
    Trunc(Div(Sub(m, Div(o.baseUnitValue, o.subdivisionFallout[1])), o.stretchModulo))

Sub_unitScaleCategory(o, m) ==
    IF Len(o.subdivisionFallout) = 0 THEN "above"
    ELSE Sub_categoryFrom(o, m, Div(o.baseUnitValue, o.subdivisionFallout[1]),
                          Sub_subdivisionIndex(o, m))

(* The 'within' branch of computeScale (lines 273-284). *)
Sub_withinUnitLength(o, m, startingMagnification) ==
    rangeMapper(Add(I(1), JsMod(Sub(m, startingMagnification), o.stretchModulo)),
                I(1), Add(o.stretchModulo, I(1)),
                o.breakpoints[1], o.breakpoints[2])

(* The interpolation of the 'last' branch of computeScale (lines 294-302). *)
Sub_clampToMaximum(o, unitLength) ==
    IF Gt(unitLength, o.maximumLengthOfLastSubdivision)
    THEN o.maximumLengthOfLastSubdivision
    ELSE unitLength

Sub_lastUnitLength(o, m, startingMagnification) ==
    IF Lt(o.maximumLengthOfLastSubdivision, o.breakpoints[1])
    THEN o.maximumLengthOfLastSubdivision
    ELSE Sub_clampToMaximum(o,
             Add(o.breakpoints[1],
                 Mul(Div(Sub(m, Add(startingMagnification,
                                    Mul(o.stretchModulo,
                                        I(Len(o.subdivisionFallout) - 1)))),
                         o.stretchModulo),
                     Sub(o.maximumLengthOfLastSubdivision, o.breakpoints[1]))))

Sub_computeScaleIn(o, s, scaleCategory) ==
    IF scaleCategory = "above"
    THEN [s EXCEPT !.unitValue = Div(o.baseUnitValue, s.magnification),
                   !.unitLength = o.breakpoints[1]]
    ELSE IF scaleCategory = "within"
    THEN [s EXCEPT !.unitValue =
                       o.subdivisionFallout[Sub_subdivisionIndex(o, s.magnification)[1] + 1],
                   !.unitLength =
                       Sub_withinUnitLength(o, s.magnification,
                           Div(o.baseUnitValue, o.subdivisionFallout[1]))]
    ELSE [s EXCEPT !.unitValue = o.subdivisionFallout[Len(o.subdivisionFallout)],
                   !.unitLength =
                       Sub_lastUnitLength(o, s.magnification,
                           Div(o.baseUnitValue, o.subdivisionFallout[1]))]

Sub_computeScale(o, s) ==
    Sub_computeScaleIn(o, s, Sub_unitScaleCategory(o, s.magnification))

(* The instance the constructor leaves (lines 81-90 and 125-127). *)
Sub_initialize(o) ==
    Sub_computeScale(o,
        [displacement |-> o.initialDisplacement,
         magnification |-> o.initialMagnification,
         unitLength |-> I(-1),
         unitValue |-> I(-1),
         lastZoomValue |-> NaN,
         lastZoomAddress |-> NaN,
         lastZoomValid |-> FALSE,
         lastZoomScaleCategory |-> "undefined"])

(* The accessors unitLength and unitValue return the stored fields. *)
Sub_unitLength(s) == s.unitLength

Sub_unitValue(s) == s.unitValue

(* valueAt and locationOf after their call of computeScale. *)
Sub_valueAtScaled(s, location, wrtOrigin) ==
    IF wrtOrigin THEN Mul(Div(location, s.unitLength), s.unitValue)
    ELSE Add(Mul(Div(s.displacement, s.unitLength), s.unitValue),
             Mul(Div(location, s.unitLength), s.unitValue))

Sub_locationOfScaled(s, value, wrtOrigin) ==
    IF wrtOrigin THEN Mul(Div(value, s.unitValue), s.unitLength)
    ELSE Sub(Mul(Div(value, s.unitValue), s.unitLength), s.displacement)

Result(s, r) == [nl |-> s, ret |-> r]

Sub_valueAtIn(s, location, wrtOrigin) ==
    Result(s, Sub_valueAtScaled(s, location, wrtOrigin))

Sub_valueAt(o, s0, location, wrtOrigin) ==
    Sub_valueAtIn(Sub_computeScale(o, s0), location, wrtOrigin)

Sub_locationOfIn(s, value, wrtOrigin) ==
    Result(s, Sub_locationOfScaled(s, value, wrtOrigin))

Sub_locationOf(o, s0, value, wrtOrigin) ==
    Sub_locationOfIn(Sub_computeScale(o, s0), value, wrtOrigin)

(* Faulty variant: moveBy leaves the cursor-sync record valid. *)
Sub_moveBy_keepsRecord(o, s, delta) ==
    [s EXCEPT !.displacement = Add(s.displacement, delta)]

Sub_moveBy(o, s, delta) ==
    [s EXCEPT !.displacement = Add(s.displacement, delta),
              !.lastZoomValid = FALSE]

(* zoomAround from line 511 on: the cursor-sync record. s is the instance  *)
(* after the displacement was shifted, valid is _lastZoomValid after        *)
(* lines 511-513.                                                           *)
Sub_zoomSync(s, scaleCategory, valid, value, address) ==
    IF valid
    THEN IF Eq(address, s.lastZoomAddress) /\ scaleCategory # "above"
         THEN [s EXCEPT !.displacement =
                            Sub(s.displacement,
                                Mul(Div(Sub(value, s.lastZoomValue), s.unitValue),
                                    s.unitLength)),
                        !.lastZoomValid = valid,
                        !.lastZoomScaleCategory = scaleCategory]
         ELSE [s EXCEPT !.lastZoomValue = value,
                        !.lastZoomAddress = address,
                        !.lastZoomValid = valid,
                        !.lastZoomScaleCategory = scaleCategory]
    ELSE [s EXCEPT !.lastZoomValue = value,
                   !.lastZoomAddress = address,
                   !.lastZoomValid = TRUE,
                   !.lastZoomScaleCategory = scaleCategory]

(* Lines 505-509: the displacement shifted by after - before. *)
Sub_zoomShift(s, scaleCategory, before, after) ==
    IF scaleCategory # "above"
    THEN [s EXCEPT !.displacement = Add(s.displacement, Sub(after, before))]
    ELSE s

(* Lines 495-538; s1 is the instance after lines 493-494. *)
Sub_zoomAroundIn(o, s1, scaleCategory, before, value, address, delta) ==
    IF scaleCategory = "last" /\ Gt(s1.unitLength, o.maximumLengthOfLastSubdivision)
    THEN Result(Sub_computeScale(o,
                    [s1 EXCEPT !.magnification = Sub(s1.magnification, delta)]),
                FALSE)
    ELSE Result(Sub_zoomSync(
                    Sub_zoomShift(s1, scaleCategory, before,
                                  Sub_locationOfScaled(s1, value, FALSE)),
                    scaleCategory,
                    s1.lastZoomValid /\ scaleCategory = s1.lastZoomScaleCategory,
                    value, address),
                TRUE)

(* Faulty variant: the lower bound is tested with < instead of <=. *)
Sub_zoomAround_strictBound(o, s0, value, address, delta) ==
    IF Lt(Add(s0.magnification, delta), I(1))
    THEN Result(s0, FALSE)
    ELSE Sub_zoomAroundIn(o,
             Sub_computeScale(o,
                 [s0 EXCEPT !.magnification = Add(s0.magnification, delta)]),
             Sub_unitScaleCategory(o, Add(s0.magnification, delta)),
             Sub_locationOf(o, s0, value, FALSE).ret,
             value, address, delta)

Sub_zoomAround(o, s0, value, address, delta) ==
    IF Le(Add(s0.magnification, delta), I(1))
    THEN Result(s0, FALSE)
    ELSE Sub_zoomAroundIn(o,
             Sub_computeScale(o,
                 [s0 EXCEPT !.magnification = Add(s0.magnification, delta)]),
             Sub_unitScaleCategory(o, Add(s0.magnification, delta)),
             Sub_locationOf(o, s0, value, FALSE).ret,
             value, address, delta)

(* The smallest member of a non-empty set of integers. *)
Least(S) == CHOOSE i \in S : \A j \in S : i <= j

Sub_strechToFit(o, s0, finalValue, length) ==
    LET f == o.subdivisionFallout
        n == Len(f)
        bp0 == o.breakpoints[1]
        bp1 == o.breakpoints[2]
        maxLen == o.maximumLengthOfLastSubdivision
        sd == [s0 EXCEPT !.displacement = I(0)]
        valuePerLength == Div(finalValue, length)
        aboveUnitValue == Mul(valuePerLength, bp0)
        aboveResult ==
            [nl |-> [sd EXCEPT !.unitLength = bp0,
                               !.unitValue = aboveUnitValue,
                               !.magnification = Div(o.baseUnitValue, aboveUnitValue)],
             ret |-> TRUE]
        offsetMagnification == Div(f[1], o.baseUnitValue)
        (* the loop runs i = 0 .. n-2; hits are the rounds that return *)
        hits == {i \in 0..(n - 2) :
                    Sub_withinBreakpointRange(o, Div(f[i + 1], valuePerLength))}
        withinResult(i) ==
            LET currentUnitLength == Div(f[i + 1], valuePerLength)
                startingMagnification == Mul(I(i), o.stretchModulo)
                x1 == startingMagnification
                x2 == Mul(I(i + 1), o.stretchModulo)
                slope == Div(Sub(bp1, bp0), Sub(x2, x1))
                fractionalMagnification == Div(Sub(currentUnitLength, bp0), slope)
            IN  [nl |-> [sd EXCEPT !.unitLength = currentUnitLength,
                                   !.unitValue = f[i + 1],
                                   !.magnification =
                                       Add(Add(offsetMagnification, startingMagnification),
                                           fractionalMagnification)],
                 ret |-> TRUE]
        (* the category the last round of the loop leaves *)
        scaleCategory ==
            IF n < 2 THEN "above"
            ELSE IF Lt(Div(f[n - 1], valuePerLength), bp0) THEN "last"
            ELSE "above"
        lastResult ==
            LET lastValue == f[n]
                currentUnitLength == Div(lastValue, valuePerLength)
                startingMagnification == Mul(I(n), o.stretchModulo)
                x1 == startingMagnification
                x2 == Mul(I(n + 1), o.stretchModulo)
                slope == Div(Sub(maxLen, bp0), Sub(x2, x1))
                fractionalMagnification == Div(Sub(currentUnitLength, bp0), slope)
            IN  IF Ge(currentUnitLength, bp0) /\ Le(currentUnitLength, maxLen)
                THEN [nl |-> [sd EXCEPT !.unitValue = lastValue,
                                        !.unitLength = currentUnitLength,
                                        !.magnification =
                                            Add(Add(offsetMagnification, startingMagnification),
                                                fractionalMagnification)],
                      ret |-> TRUE]
                ELSE [nl |-> sd, ret |-> FALSE]
    IN  IF Le(finalValue, I(0)) THEN [nl |-> s0, ret |-> FALSE, threw |-> TRUE]
        ELSE [threw |-> FALSE] @@
             (IF n = 0 THEN aboveResult
              ELSE IF hits # {} THEN withinResult(Least(hits))
              ELSE IF scaleCategory = "above" THEN aboveResult
              ELSE lastResult)

Sub_rangeFit(o, s0, startValue, endValue, length) ==
    LET difference == Sub(endValue, startValue)
        fit == Sub_strechToFit(o, s0, difference, length)
        loc == Sub_locationOf(o, fit.nl, startValue, TRUE)
    IN  IF Le(endValue, startValue) THEN [nl |-> s0, threw |-> TRUE]
        ELSE [nl |-> [loc.nl EXCEPT !.displacement = loc.ret], threw |-> FALSE]

(* The for loop of buildViewModel (lines 424-457): the tick marks pushed   *)
(* from round i on.  c holds the loop variables.  The label is the          *)
(* caller's labelStrategy output and is not part of the model.              *)
(* Faulty variant: the pattern index always counts up, also before the origin. *)
RECURSIVE Sub_tickLoop_countsUp(_, _, _, _, _)
Sub_tickLoop_countsUp(o, c, totalTicks, tickValue, tickGap) ==
    IF ~(c.i < totalTicks) THEN <<>>
    ELSE <<[value |-> IF isActuallyZero(c.currentTickValue) THEN I(0)
                      ELSE c.currentTickValue,
            position |-> c.currentTickPosition,
            height |-> o.pattern[c.currentTickIndex + 1],
            patternIndex |-> c.currentTickIndex]>> \o
         Sub_tickLoop_countsUp(o,
             [i |-> c.i + 1,
              currentTickValue |-> Add(c.currentTickValue, tickValue),
              currentTickPosition |-> Add(c.currentTickPosition, tickGap),
              currentTickIndex |-> (c.currentTickIndex + 1) % Len(o.pattern),
              negativeTicksLeft |-> c.negativeTicksLeft - 1],
             totalTicks, tickValue, tickGap)

RECURSIVE Sub_tickLoop(_, _, _, _, _)
Sub_tickLoop(o, c, totalTicks, tickValue, tickGap) ==
    IF ~(c.i < totalTicks) THEN <<>>
    ELSE LET tickCount == Len(o.pattern)
             tickMarkViewModel ==
                 [value |-> IF isActuallyZero(c.currentTickValue) THEN I(0)
                            ELSE c.currentTickValue,
                  position |-> c.currentTickPosition,
                  height |-> o.pattern[c.currentTickIndex + 1],
                  patternIndex |-> c.currentTickIndex]
             indexIncrementer == IF c.negativeTicksLeft > 0 THEN -1 ELSE 1
             stepped == c.currentTickIndex + indexIncrementer
             nextIndex == IF stepped < 0 THEN tickCount - 1
                          ELSE IF stepped >= tickCount THEN 0
                          ELSE stepped
         IN  <<tickMarkViewModel>> \o
             Sub_tickLoop(o,
                 [i |-> c.i + 1,
                  currentTickValue |-> Add(c.currentTickValue, tickValue),
                  currentTickPosition |-> Add(c.currentTickPosition, tickGap),
                  currentTickIndex |-> nextIndex,
                  negativeTicksLeft |-> c.negativeTicksLeft - 1],
                 totalTicks, tickValue, tickGap)

(* buildViewModel from line 396 on, after computeScale and lines 386-389. *)
Sub_viewModelFrom(o, s, length, tickGap, tickValue, tickCountsTillFirstTick) ==
    LET tickCount == Len(o.pattern)
        nonNegative == Ge(s.displacement, I(0))
        totalNegativeTicks ==
            IF nonNegative THEN I(0) ELSE Neg(tickCountsTillFirstTick)
        firstTickMarkValue == Mul(tickCountsTillFirstTick, tickValue)
        firstTickMarkIndex ==
            IF nonNegative THEN JsMod(tickCountsTillFirstTick, I(tickCount))
            ELSE JsMod(totalNegativeTicks, I(tickCount))
        firstTickMarkPosition ==
            Sub(Mul(tickCountsTillFirstTick, tickGap), s.displacement)
        totalTicks == Floor(Div(Sub(length, firstTickMarkPosition), tickGap))
        leftoverSpace == Sub(length, Mul(totalTicks, tickGap))
        firstValue == Sub_valueAtScaled(s, I(0), FALSE)
        lastValue == Sub_valueAtScaled(s, length, FALSE)
    IN  [offset |-> firstTickMarkPosition,
         leftoverSpace |-> leftoverSpace,
         startingValue |-> IF isActuallyZero(firstValue) THEN I(0) ELSE firstValue,
         endingValue |-> IF isActuallyZero(lastValue) THEN I(0) ELSE lastValue,
         length |-> length,
         gap |-> tickGap,
         terminates |-> totalTicks # Infinity,
         tickMarks |->
             IF IsFinite(totalTicks) /\ IsFinite(firstTickMarkIndex)
             THEN Sub_tickLoop(o,
                      [i |-> 0,
                       currentTickValue |-> firstTickMarkValue,
                       currentTickPosition |-> firstTickMarkPosition,
                       currentTickIndex |-> firstTickMarkIndex[1],
                       negativeTicksLeft |-> totalNegativeTicks[1]],
                      totalTicks[1], tickValue, tickGap)
             ELSE <<>>]

(* Faulty variant: a unit length of 0 is answered with 0 tick gaps instead of    *)
(* the outcome of the division by zero.                                     *)
Sub_tickCountsTillFirstTick_zeroGuard(o, s) ==
    IF s.unitLength = I(0) THEN I(0)
    ELSE IF Ge(s.displacement, I(0))
    THEN Ceil(Mul(Div(s.displacement, s.unitLength), I(Len(o.pattern))))
    ELSE Floor(Mul(Div(s.displacement, s.unitLength), I(Len(o.pattern))))

(* Lines 396-406: the number of tick gaps from the origin to the first tick. *)
Sub_tickCountsTillFirstTick(o, s) ==
    IF Ge(s.displacement, I(0))
    THEN Ceil(Mul(Div(s.displacement, s.unitLength), I(Len(o.pattern))))
    ELSE Floor(Mul(Div(s.displacement, s.unitLength), I(Len(o.pattern))))

Sub_buildViewModelScaled(o, s, length) ==
    Result(s, Sub_viewModelFrom(o, s, length,
                  Div(s.unitLength, I(Len(o.pattern))),
                  Div(s.unitValue, I(Len(o.pattern))),
                  Sub_tickCountsTillFirstTick(o, s)))

Sub_buildViewModel(o, s0, length) ==
    Sub_buildViewModelScaled(o, Sub_computeScale(o, s0), length)

----------------------------------------------------------------------------
(* Periodic design: src/lib/number-line.ts.                                 *)

(* Faulty variant: the fraction is not brought back into [0, 1) by the floor. *)
sawtooth_noFloor(x, lowerBound, upperBound, period) ==
    Add(lowerBound, Mul(Sub(upperBound, lowerBound), Div(JsMod(x, period), period)))

sawtooth(x, lowerBound, upperBound, period) ==
    LET amplitude == Sub(upperBound, lowerBound)
        normalizedX == Div(JsMod(x, period), period)
    IN  Add(lowerBound, Mul(amplitude, Sub(normalizedX, Floor(normalizedX))))

(* Faulty variant: the step value takes the sign of x. *)
staircase_signed(x, height, period) ==
    IF Lt(x, I(0))
    THEN Neg(Mul(Add(Floor(Div(MathAbs(x), period)), I(1)), height))
    ELSE Mul(Add(Floor(Div(x, period)), I(1)), height)

staircase(x, height, period) ==
    LET stepCount == Add(Floor(Div(MathAbs(x), period)), I(1))
    IN  Mul(stepCount, height)

(* The message of the Error initialize throws, "none" when it returns;     *)
(* an omitted zoomPeriod or zoomFactor is NaN here (undefined <= 0 is       *)
(* false, as a comparison with NaN).                                        *)
Per_initializeError(o) ==
    IF Gt(o.breakpointLowerbound, o.breakpointUpperBound)
        THEN "Breakpoint lower bound cannot be greater than breakpoint upper bound"
    ELSE IF Le(o.zoomPeriod, I(0)) THEN "Zoom step cannot be negative or zero"
    ELSE IF Le(o.zoomFactor, I(0)) THEN "Zoom factor cannot be negative or zero"
    ELSE "none"

(* x || dflt for a number x: 0, NaN and undefined give the default. *)
OrDefault(x, dflt) == IF IsNaN(x) \/ x = I(0) THEN dflt ELSE x

(* The options after initialize has filled in the defaults (lines 73-74). *)
Per_normalize(o) ==
    [o EXCEPT !.zoomPeriod = OrDefault(o.zoomPeriod, I(10)),
              !.zoomFactor = OrDefault(o.zoomFactor, I(1))]

Per_zoomTo(o, s, magnification) ==
    [s EXCEPT !.magnification = magnification,
              !.unitLength = sawtooth(magnification, o.breakpointLowerbound,
                                      o.breakpointUpperBound, o.zoomPeriod),
              !.unitValue = staircase(magnification, o.zoomFactor, o.zoomPeriod)]

Per_panTo(o, s, position) == [s EXCEPT !.displacement = position]

Per_panBy(o, s, delta) == [s EXCEPT !.displacement = Add(s.displacement, delta)]

Per_positionOf(o, s, value) ==
    Add(s.displacement, Mul(Div(s.unitLength, s.unitValue), value))

Per_valueAt(o, s, position) ==
    Div(Add(position, s.displacement), Div(s.unitLength, s.unitValue))

(* Faulty variant: the new displacement is the original displacement plus the    *)
(* shift (the line the source has commented out).                          *)
Per_zoomAround_addsOriginal(o, s0, position, by) ==
    LET valueAtHingePoint == Per_valueAt(o, s0, position)
        s2 == Per_zoomTo(o, Per_panTo(o, s0, I(0)), Add(s0.magnification, by))
        shift == Sub(Per_positionOf(o, s2, valueAtHingePoint), position)
    IN  Per_panTo(o, s2, Add(s0.displacement, shift))

Per_zoomAround(o, s0, position, by) ==
    LET valueAtHingePoint == Per_valueAt(o, s0, position)
        s1 == Per_panTo(o, s0, I(0))
        s2 == Per_zoomTo(o, s1, Add(s1.magnification, by))
        newPositionForHingePoint == Per_positionOf(o, s2, valueAtHingePoint)
        shift == Sub(newPositionForHingePoint, position)
        newDisplacement == shift
    IN  Per_panTo(o, s2, newDisplacement)

(* The instance the constructor leaves; o is the normalized options. *)
Per_initialize(o) ==
    Per_panTo(o,
        Per_zoomTo(o,
            [unitLength |-> o.breakpointLowerbound,
             unitValue |-> NaN,
             magnification |-> NaN,
             displacement |-> NaN],
            OrDefault(o.initialMagnification, I(0))),
        OrDefault(o.initialDisplacement, I(0)))

clamp(value, min, max) ==
    LET raised == IF Gt(value, min) THEN value ELSE min
    IN  IF Lt(raised, max) THEN raised ELSE max

nextDivisibleValue(numerator, denominator) ==
    IF Eq(JsMod(numerator, denominator), I(0)) THEN numerator
    ELSE Add(Sub(numerator, JsMod(numerator, denominator)), denominator)

previousDivisibleValue(numerator, denominator) == Floor(Div(numerator, denominator))

(* The endpoints as isRangeFittable and rangeFit use them: swapped when    *)
(* end < start (lines 206-210 and 237-241).                                 *)
Per_orderedRange(start, end) ==
    IF Lt(end, start) THEN <<end, start>> ELSE <<start, end>>

(* NaN stands for an omitted forUnitLength. *)
Per_targetUnitLength(o, forUnitLength) ==
    IF IsNaN(forUnitLength) THEN o.breakpointLowerbound
    ELSE clamp(forUnitLength, o.breakpointLowerbound, o.breakpointUpperBound)

(* lowerUnitValue of isRangeFittable and rangeFit. *)
Per_lowerUnitValue(o, range, length, forUnitLength) ==
    Mul(Div(Sub(range[2], range[1]), length), Per_targetUnitLength(o, forUnitLength))

Per_isRangeFittable(o, s, start, end, length, forUnitLength) ==
    [ret |-> Eq(JsMod(Per_lowerUnitValue(o, Per_orderedRange(start, end),
                                         length, forUnitLength),
                      o.zoomFactor), I(0)),
     threw |-> FALSE]

(* rangeFit from line 247 on, given lowerUnitValue and the target length. *)
Per_rangeFitFrom(o, start, lowerUnitValue, targetUnitLength) ==
    LET divisibleByZoomFactor ==
            IF Eq(JsMod(lowerUnitValue, o.zoomFactor), I(0))
            THEN previousDivisibleValue(lowerUnitValue, o.zoomFactor)
            ELSE nextDivisibleValue(lowerUnitValue, o.zoomFactor)
        magnificationBase ==
            Mul(Sub(Div(divisibleByZoomFactor, o.zoomFactor), I(1)), o.zoomPeriod)
        magnificationOffset ==
            Div(Mul(o.zoomPeriod, Sub(targetUnitLength, o.breakpointLowerbound)),
                Sub(o.breakpointUpperBound, o.breakpointLowerbound))
        magnification == Add(magnificationBase, magnificationOffset)
        derivedUnitValue == staircase(magnification, o.zoomFactor, o.zoomPeriod)
    IN  <<magnification, Mul(Div(targetUnitLength, derivedUnitValue), start)>>

Per_rangeFit(o, s, start, end, length, forUnitLength) ==
    [ret |-> Per_rangeFitFrom(o, Per_orderedRange(start, end)[1],
                 Per_lowerUnitValue(o, Per_orderedRange(start, end),
                                    length, forUnitLength),
                 Per_targetUnitLength(o, forUnitLength)),
     threw |-> FALSE]

(* The for loop of buildViewModel (lines 316-344).                          *)
(* Faulty variant: the loop stops one tick early. *)
RECURSIVE Per_tickLoop_stopsEarly(_, _, _, _, _)
Per_tickLoop_stopsEarly(o, c, totalTicks, tickValue, tickGap) ==
    IF ~(c.i < totalTicks - 1) THEN <<>>
    ELSE <<[value |-> c.currentTickValue,
            position |-> c.currentTickPosition,
            height |-> o.pattern[c.currentTickIndex + 1],
            patternIndex |-> c.currentTickIndex]>> \o
         Per_tickLoop_stopsEarly(o,
             [i |-> c.i + 1,
              currentTickValue |-> Add(c.currentTickValue, tickValue),
              currentTickPosition |-> Add(c.currentTickPosition, tickGap),
              currentTickIndex |-> IF c.currentTickIndex + 1 < Len(o.pattern)
                                   THEN c.currentTickIndex + 1 ELSE 0],
             totalTicks, tickValue, tickGap)

RECURSIVE Per_tickLoop(_, _, _, _, _)
Per_tickLoop(o, c, totalTicks, tickValue, tickGap) ==
    IF ~(c.i < totalTicks) THEN <<>>
    ELSE LET tickCount == Len(o.pattern)
             tickMarkViewModel ==
                 [value |-> c.currentTickValue,
                  position |-> c.currentTickPosition,
                  height |-> o.pattern[c.currentTickIndex + 1],
                  patternIndex |-> c.currentTickIndex]
         IN  <<tickMarkViewModel>> \o
             Per_tickLoop(o,
                 [i |-> c.i + 1,
                  currentTickValue |-> Add(c.currentTickValue, tickValue),
                  currentTickPosition |-> Add(c.currentTickPosition, tickGap),
                  currentTickIndex |-> IF c.currentTickIndex + 1 < tickCount
                                       THEN c.currentTickIndex + 1 ELSE 0],
                 totalTicks, tickValue, tickGap)

Per_buildViewModel(o, s, length) ==
    LET tickCount == Len(o.pattern)
        tickGap == Div(s.unitLength, I(tickCount))
        unitLength == s.unitLength
        unitValue == s.unitValue
        tickValue == Div(unitValue, I(tickCount))
        nonNegative == Ge(s.displacement, I(0))
        tickCountsTillFirstTick ==
            IF nonNegative
            THEN Ceil(Mul(Div(s.displacement, unitLength), I(tickCount)))
            ELSE Floor(Mul(Div(Neg(s.displacement), unitLength), I(tickCount)))
        firstTickMarkValue ==
            IF nonNegative THEN Mul(tickCountsTillFirstTick, tickValue)
            ELSE Mul(Neg(tickCountsTillFirstTick), tickValue)
        remainder == JsMod(tickCountsTillFirstTick, I(tickCount))
        firstTickMarkIndex ==
            IF nonNegative THEN remainder
            ELSE IF Eq(remainder, I(0)) THEN I(0)
            ELSE Sub(I(tickCount), remainder)
        firstTickMarkPosition ==
            IF nonNegative
            THEN Sub(Mul(tickCountsTillFirstTick, tickGap), s.displacement)
            ELSE Sub(MathAbs(s.displacement), Mul(tickCountsTillFirstTick, tickGap))
        totalTicks ==
            Add(Floor(Div(Sub(length, firstTickMarkPosition), tickGap)), I(1))
        leftoverSpace == Sub(tickGap, firstTickMarkPosition)
    IN  [offset |-> firstTickMarkPosition,
         leftoverSpace |-> leftoverSpace,
         startingValue |-> Per_valueAt(o, s, I(0)),
         endingValue |-> Per_valueAt(o, s, length),
         length |-> length,
         gap |-> tickGap,
         terminates |-> totalTicks # Infinity,
         tickMarks |->
             IF IsFinite(totalTicks) /\ IsFinite(firstTickMarkIndex)
             THEN Per_tickLoop(o,
                      [i |-> 0,
                       currentTickValue |-> firstTickMarkValue,
                       currentTickPosition |-> firstTickMarkPosition,
                       currentTickIndex |-> firstTickMarkIndex[1]],
                      totalTicks[1], tickValue, tickGap)
             ELSE <<>>]

----------------------------------------------------------------------------
(* baseCoverage design: src/dist/number-line.js.                            *)

Dist_initializeError(o) ==
    IF Lt(o.initialMagnification, I(0)) THEN "Initial Magnfication can never be negative"
    ELSE IF Le(o.stretchModulo, I(1)) THEN "Stretch modulo cannot be <=1"
    ELSE "none"

Dist_computeScale(o, s) ==
    LET repeater == Add(I(1), JsMod(s.magnification, o.stretchModulo))
        unitLength == rangeMapper(repeater, I(1), Add(o.stretchModulo, I(1)),
                                  o.breakpointLowerbound, o.breakpointUpperBound)
        unitCount == Div(o.baseLength, unitLength)
    IN  [s EXCEPT !.unitLength = unitLength,
                  !.unitValue = Div(o.baseCoverage, Mul(s.magnification, unitCount))]

(* Faulty variant: the displacement is reset before finalValue is tested. *)
Dist_stretchToFit_resetsFirst(o, s, finalValue) ==
    IF Le(finalValue, I(0))
    THEN [nl |-> [s EXCEPT !.displacement = I(0)], threw |-> TRUE]
    ELSE [nl |-> Dist_computeScale(o,
                     [s EXCEPT !.displacement = I(0),
                               !.magnification = Div(o.baseCoverage, finalValue)]),
          threw |-> FALSE]

Dist_stretchToFit(o, s, finalValue) ==
    IF Le(finalValue, I(0)) THEN [nl |-> s, threw |-> TRUE]
    ELSE [nl |-> Dist_computeScale(o,
                     [s EXCEPT !.displacement = I(0),
                               !.magnification = Div(o.baseCoverage, finalValue)]),
          threw |-> FALSE]

(* The instance the constructor leaves (lines 12-15 and 28-31). *)
Dist_initialize(o) ==
    LET s == Dist_computeScale(o,
                 [displacement |-> o.initialDisplacement,
                  magnification |-> o.initialMagnification,
                  unitLength |-> I(-1),
                  unitValue |-> I(-1)])
    IN  IF o.stretchToFit /\ ~IsNaN(o.finiteEnd)
        THEN Dist_stretchToFit(o, s, o.finiteEnd).nl
        ELSE s

Dist_valueAt(o, s0, location, wrtOrigin) ==
    LET s == Dist_computeScale(o, s0)
        unitCount == Div(location, s.unitLength)
        valueSinceOrigin == Mul(unitCount, s.unitValue)
        valueOfDisplacement == Mul(Div(s.displacement, s.unitLength), s.unitValue)
    IN  [nl |-> s,
         ret |-> IF wrtOrigin THEN Mul(Div(location, s.unitLength), s.unitValue)
                 ELSE Add(valueOfDisplacement, valueSinceOrigin)]

(* The accessors firstValue and lastValue. *)
Dist_firstValue(o, s) == Dist_valueAt(o, s, I(0), FALSE).ret

Dist_lastValue(o, s) == Dist_valueAt(o, s, o.baseLength, FALSE).ret

Dist_locationOf(o, s0, value, wrtOrigin) ==
    LET s == Dist_computeScale(o, s0)
    IN  [nl |-> s,
         ret |-> IF wrtOrigin THEN Mul(Div(value, s.unitValue), s.unitLength)
                 ELSE Sub(Mul(Div(value, s.unitValue), s.unitLength), s.displacement)]

Dist_moveBy(o, s, delta) == [s EXCEPT !.displacement = Add(s.displacement, delta)]

Dist_rangeFit(o, s0, startValue, endValue) ==
    LET difference == Sub(endValue, startValue)
        fit == Dist_stretchToFit(o, s0, difference)
    IN  IF Le(endValue, startValue) THEN [nl |-> s0, threw |-> TRUE]
        ELSE [nl |-> Dist_moveBy(o, fit.nl, Mul(startValue, fit.nl.magnification)),
              threw |-> FALSE]

Dist_zoomAround(o, s0, delta, positionFromStart) ==
    LET fixedValue == Dist_valueAt(o, s0, positionFromStart, FALSE).ret
        s1 == Dist_computeScale(o,
                  [s0 EXCEPT !.magnification = Add(s0.magnification, delta)])
        afterZoom == Dist_locationOf(o, s1, fixedValue, FALSE).ret
        cancelDifference == Sub(afterZoom, positionFromStart)
    IN  IF Le(Add(s0.magnification, delta), I(0))
        THEN [nl |-> s0, ret |-> FALSE]
        ELSE [nl |-> Dist_moveBy(o, s1, cancelDifference), ret |-> TRUE]

----------------------------------------------------------------------------
(* Configurations and call arguments explored.                              *)

SubOptions(pattern, baseUnitValue, breakpoints, stretchModulo, fallout, maxLen, m0, d0) ==
    [pattern |-> pattern,
     baseUnitValue |-> baseUnitValue,
     breakpoints |-> breakpoints,
     stretchModulo |-> stretchModulo,
     subdivisionFallout |-> fallout,
     maximumLengthOfLastSubdivision |-> maxLen,
     initialMagnification |-> m0,
     initialDisplacement |-> d0]

(* Configurations with positive magnification and                          *)
(* breakpoints[0] < breakpoints[1] <= maximumLengthOfLastSubdivision.       *)
SubConfigs ==
    { SubOptions(<<3, 1, 2>>, I(20), <<I(4), I(6)>>, I(2), <<I(10), I(5)>>, I(8), I(1), I(-3)),
      SubOptions(<<3, 1>>, I(10), <<I(4), I(6)>>, I(2), <<I(10), I(5)>>, I(8), I(5), I(3)),
      SubOptions(<<3, 1>>, I(10), <<I(4), I(6)>>, Q(3, 2), <<>>, I(8), I(2), Q(5, 2)) }

(* Further configurations: some the constructor accepts although they are  *)
(* degenerate, some it rejects.                                             *)
SubEdgeConfigs ==
    { SubOptions(<<3, 1>>, I(10), <<I(4), I(6)>>, I(2), <<I(10), I(5)>>, I(8), I(0), I(0)),
      SubOptions(<<3, 1>>, I(10), <<I(4), I(6)>>, I(2), <<I(10), I(5)>>, I(3), I(1), I(0)),
      SubOptions(<<3, 1>>, I(10), <<I(6), I(4)>>, I(2), <<I(10), I(5)>>, I(8), I(1), I(0)),
      SubOptions(<<3, 1>>, I(10), <<I(4), I(6)>>, I(2), <<I(10), I(5)>>, I(8), I(-1), I(0)),
      SubOptions(<<3, 1>>, I(10), <<I(4), I(6)>>, I(1), <<I(10), I(5)>>, I(8), I(1), I(0)),
      SubOptions(<<3, 1>>, I(10), <<I(4), I(6)>>, I(2), <<I(5), I(5)>>, I(8), I(1), I(0)),
      SubOptions(<<3, 1>>, I(10), <<I(4), I(6)>>, I(2), <<I(5), I(0)>>, I(8), I(1), I(0)),
      SubOptions(<<3, 1>>, I(10), <<I(4), I(6)>>, I(2), <<I(20), I(5)>>, I(8), I(1), I(0)) }

PerOptions(pattern, lower, upper, zoomPeriod, zoomFactor, m0, d0) ==
    [pattern |-> pattern,
     breakpointLowerbound |-> lower,
     breakpointUpperBound |-> upper,
     zoomPeriod |-> zoomPeriod,
     zoomFactor |-> zoomFactor,
     initialMagnification |-> m0,
     initialDisplacement |-> d0]

(* NaN stands for an omitted optional field. *)
PerConfigs ==
    { PerOptions(<<3, 1>>, I(4), I(6), I(2), I(1), NaN, NaN),
      PerOptions(<<3, 1, 2>>, I(4), I(6), I(2), I(2), I(-3), Q(-3, 2)),
      PerOptions(<<3, 1>>, I(4), I(6), NaN, NaN, Q(5, 2), I(2)) }

PerEdgeConfigs ==
    { PerOptions(<<3, 1>>, I(6), I(4), I(2), I(1), NaN, NaN),
      PerOptions(<<3, 1>>, I(4), I(6), I(0), I(1), NaN, NaN),
      PerOptions(<<3, 1>>, I(4), I(6), I(2), I(-1), NaN, NaN) }

DistOptions(pattern, lower, upper, baseCoverage, baseLength, stretchModulo, m0, d0) ==
    [pattern |-> pattern,
     breakpointLowerbound |-> lower,
     breakpointUpperBound |-> upper,
     baseCoverage |-> baseCoverage,
     baseLength |-> baseLength,
     stretchModulo |-> stretchModulo,
     initialMagnification |-> m0,
     initialDisplacement |-> d0,
     stretchToFit |-> FALSE,
     finiteEnd |-> NaN]

DistConfigs ==
    { DistOptions(<<3, 1>>, I(4), I(6), I(20), I(10), I(2), I(1), I(0)),
      DistOptions(<<3, 1>>, I(4), I(6), I(10), I(10), Q(3, 2), I(2), I(-3)) }

DistEdgeConfigs ==
    { DistOptions(<<3, 1>>, I(4), I(6), I(20), I(10), I(1), I(1), I(0)) }

(* Configurations the constructors accept whose lower breakpoint is 0: the *)
(* unit length, and with it the tick gap, is 0 at some magnifications.      *)
SubZeroLengthConfigs ==
    { SubOptions(<<3, 1>>, I(10), <<I(0), I(6)>>, I(2), <<I(10), I(5), I(2)>>, I(8), Q(1, 2), I(3)),
      SubOptions(<<3, 1>>, I(10), <<I(0), I(6)>>, Q(3, 2), <<>>, I(8), I(2), I(0)) }

PerZeroLengthConfigs ==
    { PerOptions(<<3, 1>>, I(0), I(6), I(2), I(1), NaN, NaN),
      PerOptions(<<3, 1, 2>>, I(0), I(6), I(2), I(2), I(2), Q(-3, 2)) }

Designs == {"subdivision", "periodic", "baseCoverage"}

ConfigsOf(d) ==
    IF d = "subdivision" THEN SubConfigs
    ELSE IF d = "periodic" THEN PerConfigs
    ELSE DistConfigs

EdgeConfigsOf(d) ==
    IF d = "subdivision" THEN SubEdgeConfigs
    ELSE IF d = "periodic" THEN PerEdgeConfigs
    ELSE DistEdgeConfigs

ZeroLengthConfigsOf(d) ==
    IF d = "subdivision" THEN SubZeroLengthConfigs
    ELSE IF d = "periodic" THEN PerZeroLengthConfigs
    ELSE {}

initializeError(d, o) ==
    IF d = "subdivision" THEN Sub_initializeError(o)
    ELSE IF d = "periodic" THEN Per_initializeError(o)
    ELSE Dist_initializeError(o)

initialize(d, o) ==
    IF d = "subdivision" THEN Sub_initialize(o)
    ELSE IF d = "periodic" THEN Per_initialize(Per_normalize(o))
    ELSE Dist_initialize(o)

(* No instance exists when the constructor throws. *)
NoInstance == [displacement |-> NaN, magnification |-> NaN,
               unitLength |-> NaN, unitValue |-> NaN]

(* history is the log of the calls that took effect on an instance of the  *)
(* subdivision design since its construction (a call that threw and a       *)
(* zoomAround that returned false are not logged): for each call its name,  *)
(* the value and address passed to zoomAround (NaN otherwise) and regime,   *)
(* unitScaleCategory() on the instance the call left.                       *)
Logged(o, s, c) ==
    [op |-> c.op,
     value |-> IF c.op = "zoomAround" THEN c.value ELSE NaN,
     address |-> IF c.op = "zoomAround" THEN c.address ELSE NaN,
     regime |-> Sub_unitScaleCategory(o, s.magnification)]

Recorded(h, d, o, s, c) ==
    IF d = "subdivision" /\ ~c.threw /\ (c.op = "zoomAround" => c.ret)
    THEN Append(h, Logged(o, s, c))
    ELSE h

(* Arguments of the calls. *)
Addresses == {I(3), I(7)}

(* A zoomAround passes the value under the cursor, valueAt(address, false); *)
(* at the first address also a value that is not the one under the cursor.  *)
FreeValues(address) == IF address = I(3) THEN {I(3)} ELSE {}

ZoomDeltas == {I(-1), Q(3, 2)}

MoveDeltas == {Q(-5, 2), I(4)}

Magnifications == {I(-5), Q(7, 2)}

Locations == {I(0), I(12)}

Values == {I(0), I(3), I(-2)}

FinalValues == {I(-4), I(0), I(12), I(24), I(60)}

RangeEnds == {<<I(3), I(3)>>, <<I(3), I(-2)>>, <<I(-2), I(22)>>, <<I(-2), I(58)>>}

Lengths == {I(12)}

ViewLengths == {I(7), I(12)}

(* The periodic design is also asked for a view of length 0. *)
PerViewLengths == ViewLengths \cup {I(0)}

(* Ranges for the periodic rangeFit: reversed, empty and proper. *)
PerRanges == {<<I(40), I(10)>>, <<I(40), I(40)>>, <<I(10), I(34)>>}

(* NaN stands for an omitted forUnitLength. *)
ForUnitLengths == {NaN, I(5)}

----------------------------------------------------------------------------
(* The state machine: one engine instance of one design, built by its      *)
(* constructor and then driven by calls.  call records the last call: its   *)
(* name, arguments, outcome and pre, the instance as it was before it.      *)

Construct(d, o) ==
    LET error == initializeError(d, o)
    IN  /\ design = d
        /\ options = IF d = "periodic" /\ error = "none" THEN Per_normalize(o) ELSE o
        /\ nl = IF error = "none" THEN initialize(d, o) ELSE NoInstance
        /\ call = [op |-> "constructor", threw |-> error # "none", error |-> error]
        /\ steps = 0
        /\ history = <<>>

Init == \E d \in Designs : \E o \in ConfigsOf(d) : Construct(d, o)

InitAccepted ==
    \E d \in Designs : \E o \in ConfigsOf(d) \cup EdgeConfigsOf(d) : Construct(d, o)

InitZeroLength ==
    \E d \in Designs :
       \E o \in ConfigsOf(d) \cup EdgeConfigsOf(d) \cup ZeroLengthConfigsOf(d) :
          Construct(d, o)

Constructed == ~(call.op = "constructor" /\ call.threw)

Queries == {"valueAt", "locationOf", "positionOf", "buildViewModel"}

(* In the periodic design rangeFit only computes a pair and changes nothing. *)
PerQueries == {"isRangeFittable", "rangeFit"}

(* A call that took no effect.                                              *)
NoEffect ==
    \/ call.op \in Queries
    \/ (design = "periodic" /\ call.op \in PerQueries)
    \/ call.threw
    \/ (call.op = "zoomAround" /\ design # "periodic" /\ ~call.ret)

(* A call without effect that left the instance as it was is followed by   *)
(* nothing new: the calls after it are the calls after the one before it,   *)
(* so they are explored from there.                                         *)
Fresh ==
    ~(call.op # "constructor" /\ NoEffect /\ call.pre = nl)

CanCall(d) == design = d /\ Constructed /\ Fresh /\ steps < MaxSteps

CanQuery(d) == design = d /\ Constructed /\ Fresh

Mutate(s, c) ==
    /\ nl' = s
    /\ call' = c @@ [pre |-> nl]
    /\ steps' = steps + 1
    /\ history' = Recorded(history, design, options, s, c)
    /\ UNCHANGED <<design, options>>

Query(s, c) ==
    /\ nl' = s
    /\ call' = c @@ [pre |-> nl]
    /\ UNCHANGED <<design, options, steps, history>>

(* ---- subdivision design ---- *)

MoveBy ==
    /\ CanCall("subdivision")
    /\ \E delta \in {Q(-5, 2)} :
          Mutate(Sub_moveBy(options, nl, delta),
                 [op |-> "moveBy", delta |-> delta, threw |-> FALSE])

ZoomAround ==
    /\ CanCall("subdivision")
    /\ \E address \in Addresses, delta \in ZoomDeltas :
       \E value \in {Sub_valueAt(options, nl, address, FALSE).ret}
                       \cup FreeValues(address) :
          LET r == Sub_zoomAround(options, nl, value, address, delta)
          IN  Mutate(r.nl, [op |-> "zoomAround", value |-> value, address |-> address,
                            delta |-> delta, ret |-> r.ret, threw |-> FALSE])

StrechToFit ==
    /\ CanCall("subdivision")
    /\ \E finalValue \in FinalValues, length \in Lengths :
          LET r == Sub_strechToFit(options, nl, finalValue, length)
          IN  Mutate(r.nl, [op |-> "strechToFit", finalValue |-> finalValue,
                            length |-> length, ret |-> r.ret, threw |-> r.threw])

RangeFit ==
    /\ CanCall("subdivision")
    /\ \E range \in RangeEnds, length \in Lengths :
          LET r == Sub_rangeFit(options, nl, range[1], range[2], length)
          IN  Mutate(r.nl, [op |-> "rangeFit", startValue |-> range[1],
                            endValue |-> range[2], length |-> length,
                            threw |-> r.threw])

ValueAt ==
    /\ CanQuery("subdivision")
    /\ \E location \in {I(12)}, wrtOrigin \in BOOLEAN :
          LET r == Sub_valueAt(options, nl, location, wrtOrigin)
          IN  Query(r.nl, [op |-> "valueAt", location |-> location,
                           wrtOrigin |-> wrtOrigin, ret |-> r.ret, threw |-> FALSE])

LocationOf ==
    /\ CanQuery("subdivision")
    /\ \E value \in {I(3)}, wrtOrigin \in BOOLEAN :
          LET r == Sub_locationOf(options, nl, value, wrtOrigin)
          IN  Query(r.nl, [op |-> "locationOf", value |-> value,
                           wrtOrigin |-> wrtOrigin, ret |-> r.ret, threw |-> FALSE])

BuildViewModel ==
    /\ CanQuery("subdivision")
    /\ \E length \in ViewLengths :
          LET r == Sub_buildViewModel(options, nl, length)
          IN  Query(r.nl, [op |-> "buildViewModel", length |-> length,
                           ret |-> r.ret, threw |-> FALSE])

(* ---- periodic design ---- *)

PanTo ==
    /\ CanCall("periodic")
    /\ \E position \in {I(4)} :
          Mutate(Per_panTo(options, nl, position),
                 [op |-> "panTo", position |-> position, threw |-> FALSE])

PanBy ==
    /\ CanCall("periodic")
    /\ \E delta \in MoveDeltas :
          Mutate(Per_panBy(options, nl, delta),
                 [op |-> "panBy", delta |-> delta, threw |-> FALSE])

ZoomTo ==
    /\ CanCall("periodic")
    /\ \E magnification \in Magnifications :
          Mutate(Per_zoomTo(options, nl, magnification),
                 [op |-> "zoomTo", magnification |-> magnification, threw |-> FALSE])

PerZoomAround ==
    /\ CanCall("periodic")
    /\ \E position \in {I(3)}, by \in ZoomDeltas :
          Mutate(Per_zoomAround(options, nl, position, by),
                 [op |-> "zoomAround", position |-> position, by |-> by,
                  threw |-> FALSE])

PerValueAt ==
    /\ CanQuery("periodic")
    /\ \E position \in Locations :
          Query(nl, [op |-> "valueAt", position |-> position,
                     ret |-> Per_valueAt(options, nl, position), threw |-> FALSE])

PerPositionOf ==
    /\ CanQuery("periodic")
    /\ \E value \in {I(3)} :
          Query(nl, [op |-> "positionOf", value |-> value,
                     ret |-> Per_positionOf(options, nl, value), threw |-> FALSE])

PerBuildViewModel ==
    /\ CanQuery("periodic")
    /\ \E length \in PerViewLengths :
          Query(nl, [op |-> "buildViewModel", length |-> length,
                     ret |-> Per_buildViewModel(options, nl, length),
                     threw |-> FALSE])

PerIsRangeFittable ==
    /\ CanQuery("periodic")
    /\ \E range \in PerRanges, length \in Lengths, forUnitLength \in ForUnitLengths :
          LET r == Per_isRangeFittable(options, nl, range[1], range[2],
                                       length, forUnitLength)
          IN  Query(nl, [op |-> "isRangeFittable", start |-> range[1],
                         end |-> range[2], length |-> length,
                         forUnitLength |-> forUnitLength,
                         ret |-> r.ret, threw |-> r.threw])

PerRangeFit ==
    /\ CanQuery("periodic")
    /\ \E range \in PerRanges, length \in Lengths, forUnitLength \in ForUnitLengths :
          LET r == Per_rangeFit(options, nl, range[1], range[2],
                                length, forUnitLength)
          IN  Query(nl, [op |-> "rangeFit", start |-> range[1],
                         end |-> range[2], length |-> length,
                         forUnitLength |-> forUnitLength,
                         ret |-> r.ret, threw |-> r.threw])

(* ---- baseCoverage design ---- *)

DistMoveBy ==
    /\ CanCall("baseCoverage")
    /\ \E delta \in MoveDeltas :
          Mutate(Dist_moveBy(options, nl, delta),
                 [op |-> "moveBy", delta |-> delta, threw |-> FALSE])

DistZoomAround ==
    /\ CanCall("baseCoverage")
    /\ \E positionFromStart \in Addresses, delta \in ZoomDeltas :
          LET r == Dist_zoomAround(options, nl, delta, positionFromStart)
          IN  Mutate(r.nl, [op |-> "zoomAround", delta |-> delta,
                            positionFromStart |-> positionFromStart,
                            ret |-> r.ret, threw |-> FALSE])

DistStretchToFit ==
    /\ CanCall("baseCoverage")
    /\ \E finalValue \in FinalValues :
          LET r == Dist_stretchToFit(options, nl, finalValue)
          IN  Mutate(r.nl, [op |-> "stretchToFit", finalValue |-> finalValue,
                            threw |-> r.threw])

DistRangeFit ==
    /\ CanCall("baseCoverage")
    /\ \E range \in RangeEnds :
          LET r == Dist_rangeFit(options, nl, range[1], range[2])
          IN  Mutate(r.nl, [op |-> "rangeFit", startValue |-> range[1],
                            endValue |-> range[2], threw |-> r.threw])

DistValueAt ==
    /\ CanQuery("baseCoverage")
    /\ \E location \in {I(12)}, wrtOrigin \in BOOLEAN :
          LET r == Dist_valueAt(options, nl, location, wrtOrigin)
          IN  Query(r.nl, [op |-> "valueAt", location |-> location,
                           wrtOrigin |-> wrtOrigin, ret |-> r.ret, threw |-> FALSE])

Next ==
    \/ MoveBy
    \/ ZoomAround
    \/ StrechToFit
    \/ RangeFit
    \/ ValueAt
    \/ LocationOf
    \/ BuildViewModel
    \/ PanTo
    \/ PanBy
    \/ ZoomTo
    \/ PerZoomAround
    \/ PerValueAt
    \/ PerPositionOf
    \/ PerBuildViewModel
    \/ PerIsRangeFittable
    \/ PerRangeFit
    \/ DistMoveBy
    \/ DistZoomAround
    \/ DistStretchToFit
    \/ DistRangeFit
    \/ DistValueAt

Spec == Init /\ [][Next]_vars

(* The same machine started from every configuration explored, the         *)
(* degenerate and the rejected ones included.                               *)
SpecAccepted == InitAccepted /\ [][Next]_vars

(* The same machine started also from the accepted configurations whose    *)
(* lower breakpoint is 0.                                                   *)
SpecZeroLength == InitZeroLength /\ [][Next]_vars

----------------------------------------------------------------------------
(* Properties.                                                              *)

IsSubdivision == design = "subdivision" /\ Constructed

IsPeriodic == design = "periodic" /\ Constructed

IsBaseCoverage == design = "baseCoverage" /\ Constructed

(* valueAt(locationOf(v, wrtOrigin), wrtOrigin) on the current instance. *)
Sub_roundTrip(v, wrtOrigin) ==
    Sub_valueAt(options, nl, Sub_locationOf(options, nl, v, wrtOrigin).ret, wrtOrigin).ret

(* C1: subdivision design: in every reachable state, for every value v and *)
(* both wrtOrigin, valueAt(locationOf(v, wrtOrigin), wrtOrigin) = v.        *)
C1_RoundTrip ==
    IsSubdivision =>
        \A v \in Values, wrtOrigin \in BOOLEAN : Eq(Sub_roundTrip(v, wrtOrigin), v)

(* C2: periodic design: in every reachable state, valueAt(positionOf(v)) = v. *)
C2_RoundTrip ==
    IsPeriodic =>
        \A v \in Values :
            Eq(Per_valueAt(options, nl, Per_positionOf(options, nl, v)), v)

(* C3: periodic design: zoomAround(p, delta) leaves valueAt(p) as it was    *)
(* and adds delta to the magnification.                                     *)
C3_ZoomAnchored ==
    (IsPeriodic /\ call.op = "zoomAround") =>
        /\ Eq(Per_valueAt(options, nl, call.position),
              Per_valueAt(options, call.pre, call.position))
        /\ Eq(nl.magnification, Add(call.pre.magnification, call.by))

(* A zoomAround from a displaced line that moved to another staircase step. *)
C3_Witness ==
    /\ IsPeriodic
    /\ call.op = "zoomAround"
    /\ call.pre.displacement # I(0)
    /\ call.pre.unitValue # nl.unitValue
    /\ call.pre.unitLength # nl.unitLength
    /\ Eq(Per_valueAt(options, nl, call.position),
          Per_valueAt(options, call.pre, call.position))

(* C4: subdivision design: a zoomAround(value, address, delta) that returns *)
(* true leaves locationOf(value, false) as it was, in every scale regime.   *)
C4_ZoomAnchored ==
    (IsSubdivision /\ call.op = "zoomAround" /\ call.ret) =>
        Eq(Sub_locationOf(options, nl, call.value, FALSE).ret,
           Sub_locationOf(options, call.pre, call.value, FALSE).ret)

(* C5: zoomAround returns false and changes nothing when magnification +   *)
(* delta is at or below the lower bound: 1 in the subdivision design, 0 in  *)
(* the baseCoverage design.                                                 *)
C5_ZoomRejected ==
    /\ (IsSubdivision /\ call.op = "zoomAround"
            /\ Le(Add(call.pre.magnification, call.delta), I(1)))
        => (~call.ret /\ nl = call.pre)
    /\ (IsBaseCoverage /\ call.op = "zoomAround"
            /\ Le(Add(call.pre.magnification, call.delta), I(0)))
        => (~call.ret /\ nl = call.pre)

(* A rejected zoom-out of a subdivision line that holds a cursor-sync record. *)
C5_Witness ==
    /\ IsSubdivision
    /\ call.op = "zoomAround"
    /\ Le(Add(call.pre.magnification, call.delta), I(1))
    /\ call.pre.lastZoomValid
    /\ call.pre.displacement # I(0)
    /\ ~call.ret
    /\ nl = call.pre

(* The baseCoverage half of C5 happens too. *)
C5_WitnessBaseCoverage ==
    /\ IsBaseCoverage
    /\ call.op = "zoomAround"
    /\ Le(Add(call.pre.magnification, call.delta), I(0))
    /\ ~call.ret
    /\ nl = call.pre

(* C6: subdivision design: in the 'last' regime a zoom-in issued when       *)
(* unitLength already equals maximumLengthOfLastSubdivision returns false   *)
(* and leaves the magnification as it was.                                  *)
C6_ZoomInRejectedAtMaximum ==
    (IsSubdivision /\ call.op = "zoomAround"
        /\ Gt(call.delta, I(0))
        /\ Sub_unitScaleCategory(options, call.pre.magnification) = "last"
        /\ Sub_computeScale(options, call.pre).unitLength
               = options.maximumLengthOfLastSubdivision)
    => (~call.ret /\ nl.magnification = call.pre.magnification)

(* C7: periodic design: breakpointLowerbound <= unitLength <=               *)
(* breakpointUpperBound for every magnification, and the unit length is     *)
(* that of every magnification a whole number of zoomPeriods away.          *)
C7_UnitLengthBounds ==
    IsPeriodic =>
        /\ Le(options.breakpointLowerbound, nl.unitLength)
        /\ Le(nl.unitLength, options.breakpointUpperBound)
        /\ \A k \in -2..2 :
              sawtooth(Add(nl.magnification, Mul(I(k), options.zoomPeriod)),
                       options.breakpointLowerbound, options.breakpointUpperBound,
                       options.zoomPeriod) = nl.unitLength

(* A negative magnification inside a period. *)
C7_Witness ==
    /\ IsPeriodic
    /\ Lt(nl.magnification, I(0))
    /\ Lt(options.breakpointLowerbound, nl.unitLength)
    /\ Lt(nl.unitLength, options.breakpointUpperBound)

Sub_unitLengthInBounds ==
    /\ Le(options.breakpoints[1], nl.unitLength)
    /\ Le(nl.unitLength, options.maximumLengthOfLastSubdivision)
    /\ (Sub_unitScaleCategory(options, nl.magnification) # "last"
           => Le(nl.unitLength, options.breakpoints[2]))

(* C8: subdivision design: for every configuration the constructor        *)
(* accepts and every reachable state, breakpoints[0] <= unitLength <=       *)
(* maximumLengthOfLastSubdivision, and unitLength <= breakpoints[1] outside *)
(* the 'last' regime.                                                       *)
C8_UnitLengthBounds == IsSubdivision => Sub_unitLengthInBounds

(* C9: subdivision design: for every configuration the constructor          *)
(* accepts, unitValue is a finite number strictly greater than 0.           *)
C9_UnitValuePositive ==
    IsSubdivision => (IsFinite(nl.unitValue) /\ Gt(nl.unitValue, I(0)))

ZeroTicksAtPatternStart(viewModel) ==
    \A i \in 1..Len(viewModel.tickMarks) :
        viewModel.tickMarks[i].value = I(0) =>
            /\ viewModel.tickMarks[i].patternIndex = 0
            /\ viewModel.tickMarks[i].height = options.pattern[1]

(* C10: buildViewModel of the periodic and of the subdivision design: a     *)
(* returned tick mark whose value is 0 has patternIndex 0 and height        *)
(* pattern[0].                                                              *)
C10_ZeroTickPatternIndex ==
    ((IsPeriodic \/ IsSubdivision) /\ call.op = "buildViewModel")
    => ZeroTicksAtPatternStart(call.ret)

(* A subdivision view with negative ticks before the tick of value 0. *)
C10_Witness ==
    /\ IsSubdivision
    /\ call.op = "buildViewModel"
    /\ Lt(nl.displacement, I(0))
    /\ Len(options.pattern) = 3
    /\ \E i \in 3..Len(call.ret.tickMarks) :
          /\ call.ret.tickMarks[i].value = I(0)
          /\ call.ret.tickMarks[i].patternIndex = 0
          /\ call.ret.tickMarks[1].patternIndex # 0

(* The periodic half of C10 happens too. *)
C10_WitnessPeriodic ==
    /\ IsPeriodic
    /\ call.op = "buildViewModel"
    /\ Lt(nl.displacement, I(0))
    /\ \E i \in 2..Len(call.ret.tickMarks) :
          /\ call.ret.tickMarks[i].value = I(0)
          /\ call.ret.tickMarks[1].patternIndex # 0

IsView(d) == design = d /\ Constructed /\ call.op = "buildViewModel"

(* C11: subdivision design: for every displacement, negative and off the   *)
(* tick grid included, the view model has 0 <= offset < gap, and offset is  *)
(* the position of tickMarks[0].                                            *)
C11_OffsetWithinGap ==
    IsView("subdivision") =>
        /\ Le(I(0), call.ret.offset)
        /\ Lt(call.ret.offset, call.ret.gap)
        /\ (Len(call.ret.tickMarks) > 0
               => call.ret.tickMarks[1].position = call.ret.offset)

(* The number of ticks the claim C12 counts: floor((length - offset)/gap) + 1. *)
GridTickCount(viewModel) ==
    Add(Floor(Div(Sub(viewModel.length, viewModel.offset), viewModel.gap)), I(1))

(* C12: periodic design: buildViewModel(length), length >= 0, returns      *)
(* gap = unitLength / pattern length, 0 <= offset < gap, and exactly        *)
(* floor((length - offset)/gap) + 1 tick marks at offset + i*gap, a tick at *)
(* position length included.                                                *)
C12_PeriodicGrid ==
    (IsView("periodic") /\ Ge(call.length, I(0))) =>
        /\ call.ret.gap = Div(nl.unitLength, I(Len(options.pattern)))
        /\ Le(I(0), call.ret.offset)
        /\ Lt(call.ret.offset, call.ret.gap)
        /\ I(Len(call.ret.tickMarks)) = GridTickCount(call.ret)
        /\ \A i \in 1..Len(call.ret.tickMarks) :
              call.ret.tickMarks[i].position
                  = Add(call.ret.offset, Mul(I(i - 1), call.ret.gap))

(* A view from a negative displacement off the grid whose last tick lies    *)
(* exactly on position length.                                              *)
C12_Witness ==
    /\ IsView("periodic")
    /\ Lt(nl.displacement, I(0))
    /\ Gt(call.ret.offset, I(0))
    /\ Len(call.ret.tickMarks) > 2
    /\ call.ret.tickMarks[Len(call.ret.tickMarks)].position = call.length

(* A view of length 0 of the periodic design: only a tick at 0, if any. *)
C12_WitnessZeroLength ==
    /\ IsView("periodic")
    /\ call.length = I(0)
    /\ Len(call.ret.tickMarks) = 1

(* The first position of the tick grid at or after the rendering start. *)
FirstGridPosition(viewModel) ==
    IF Lt(viewModel.offset, I(0)) THEN Add(viewModel.offset, viewModel.gap)
    ELSE viewModel.offset

(* The number of grid positions p with 0 <= p < length. *)
GridPositionsInView(viewModel) ==
    IF Ge(FirstGridPosition(viewModel), viewModel.length) THEN I(0)
    ELSE Ceil(Div(Sub(viewModel.length, FirstGridPosition(viewModel)), viewModel.gap))

(* C13: subdivision design: for length > 0 the tick marks of               *)
(* buildViewModel(length) are exactly the grid ticks at positions p with    *)
(* 0 <= p < length: none outside, and none inside left without a tick.      *)
C13_TicksCoverView ==
    (IsView("subdivision") /\ Gt(call.length, I(0))) =>
        /\ \A i \in 1..Len(call.ret.tickMarks) :
              /\ Le(I(0), call.ret.tickMarks[i].position)
              /\ Lt(call.ret.tickMarks[i].position, call.length)
        /\ I(Len(call.ret.tickMarks)) = GridPositionsInView(call.ret)

(* C14: periodic and subdivision designs: when buildViewModel(length)       *)
(* returns at least one tick, leftoverSpace is the space between the last   *)
(* tick and length: offset + (tickMarks.length - 1)*gap + leftoverSpace =   *)
(* length.                                                                  *)
C14_LeftoverSpace ==
    ((IsView("periodic") \/ IsView("subdivision")) /\ Len(call.ret.tickMarks) > 0) =>
        Add(Add(call.ret.offset,
                Mul(I(Len(call.ret.tickMarks) - 1), call.ret.gap)),
            call.ret.leftoverSpace) = call.length

(* C14 for the periodic design alone. *)
C14_LeftoverSpacePeriodic == IsView("periodic") => C14_LeftoverSpace

(* C14 for the subdivision design alone. *)
C14_LeftoverSpaceSubdivision == IsView("subdivision") => C14_LeftoverSpace

IsCall(d, op) == design = d /\ Constructed /\ call.op = op

(* C15: subdivision design: for finalValue > 0 and length > 0, after a      *)
(* strechToFit(finalValue, length) that returns true, displacement = 0,     *)
(* valueAt(0, false) = 0 and valueAt(length, false) = finalValue.           *)
C15_StrechToFitFits ==
    (IsCall("subdivision", "strechToFit") /\ ~call.threw /\ call.ret = TRUE
        /\ Gt(call.finalValue, I(0)) /\ Gt(call.length, I(0)))
    => /\ nl.displacement = I(0)
       /\ Sub_valueAt(options, nl, I(0), FALSE).ret = I(0)
       /\ Sub_valueAt(options, nl, call.length, FALSE).ret = call.finalValue

(* C15 where baseUnitValue equals subdivisionFallout[0]. *)
C15_StrechToFitFitsFromBase ==
    (IsSubdivision /\ Len(options.subdivisionFallout) > 0
        /\ options.baseUnitValue = options.subdivisionFallout[1])
    => C15_StrechToFitFits

SameScaleAndPlace(s, t) ==
    /\ s.magnification = t.magnification
    /\ s.displacement = t.displacement
    /\ s.unitLength = t.unitLength
    /\ s.unitValue = t.unitValue

(* C16: subdivision design: a strechToFit that returns false, called        *)
(* directly or as the inner call of rangeFit, leaves magnification,         *)
(* displacement, unitLength and unitValue as they were before the call.     *)
C16_FailedFitIsAtomic ==
    /\ (IsCall("subdivision", "strechToFit") /\ ~call.threw /\ call.ret = FALSE)
        => SameScaleAndPlace(nl, call.pre)
    /\ (IsCall("subdivision", "rangeFit") /\ ~call.threw
            /\ Sub_strechToFit(options, call.pre,
                   Sub(call.endValue, call.startValue), call.length).ret = FALSE)
        => SameScaleAndPlace(nl, call.pre)

(* C16 for the direct call alone. *)
C16_FailedStrechToFitIsAtomic ==
    (IsCall("subdivision", "strechToFit") /\ ~call.threw /\ call.ret = FALSE)
        => SameScaleAndPlace(nl, call.pre)

(* C16 for the inner call of rangeFit alone. *)
C16_FailedRangeFitIsAtomic ==
    (IsCall("subdivision", "rangeFit") /\ ~call.threw
        /\ Sub_strechToFit(options, call.pre,
               Sub(call.endValue, call.startValue), call.length).ret = FALSE)
    => SameScaleAndPlace(nl, call.pre)

(* C17: subdivision and baseCoverage designs: rangeFit raises an error      *)
(* whenever endValue <= startValue, and strechToFit (stretchToFit) whenever *)
(* finalValue <= 0, before any change to the instance.                      *)
C17_FitErrors ==
    /\ ((IsCall("subdivision", "rangeFit") \/ IsCall("baseCoverage", "rangeFit"))
            /\ Le(call.endValue, call.startValue))
        => (call.threw /\ nl = call.pre)
    /\ ((IsCall("subdivision", "strechToFit") \/ IsCall("baseCoverage", "stretchToFit"))
            /\ Le(call.finalValue, I(0)))
        => (call.threw /\ nl = call.pre)

(* A rangeFit with equal endpoints on a displaced subdivision line. *)
C17_Witness ==
    /\ IsCall("subdivision", "rangeFit")
    /\ call.endValue = call.startValue
    /\ call.pre.displacement # I(0)
    /\ call.threw
    /\ nl = call.pre

(* A stretchToFit(0) on a displaced baseCoverage line. *)
C17_WitnessBaseCoverage ==
    /\ IsCall("baseCoverage", "stretchToFit")
    /\ call.finalValue = I(0)
    /\ call.pre.displacement # I(0)
    /\ call.threw
    /\ nl = call.pre

(* A strechToFit with a negative final value on a subdivision line. *)
C17_WitnessNegative ==
    /\ IsCall("subdivision", "strechToFit")
    /\ Lt(call.finalValue, I(0))
    /\ call.pre.displacement # I(0)
    /\ call.threw
    /\ nl = call.pre

(* C18: periodic design: rangeFit and isRangeFittable fail with an          *)
(* invalid-range error whenever end < start or end = start; they never swap *)
(* the endpoints and return a result.                                       *)
C18_InvalidRangeRejected ==
    ((IsCall("periodic", "rangeFit") \/ IsCall("periodic", "isRangeFittable"))
        /\ Le(call.end, call.start))
    => call.threw

(* C18 for equal endpoints alone. *)
C18_EmptyRangeRejected ==
    ((IsCall("periodic", "rangeFit") \/ IsCall("periodic", "isRangeFittable"))
        /\ call.end = call.start)
    => call.threw

(* The instance after zoomTo and panTo with the pair rangeFit returned. *)
Per_applied(pair) ==
    Per_panTo(options, Per_zoomTo(options, nl, pair[1]), pair[2])

(* C19: periodic design: for start < end and length > 0, whenever           *)
(* isRangeFittable(start, end, length, forUnitLength) is true, zoomTo and   *)
(* panTo with the pair of rangeFit(start, end, length, forUnitLength) give  *)
(* unitLength = the clamped forUnitLength (the lower bound when omitted),   *)
(* valueAt(0) = start and valueAt(length) = end.                            *)
C19_RangeFitFits ==
    (IsCall("periodic", "rangeFit") /\ Lt(call.start, call.end)
        /\ Gt(call.length, I(0))
        /\ Per_isRangeFittable(options, nl, call.start, call.end,
                               call.length, call.forUnitLength).ret)
    => /\ Per_applied(call.ret).unitLength
              = Per_targetUnitLength(options, call.forUnitLength)
       /\ Per_valueAt(options, Per_applied(call.ret), I(0)) = call.start
       /\ Per_valueAt(options, Per_applied(call.ret), call.length) = call.end

(* C19 for zoomFactor 1 alone. *)
C19_RangeFitFitsUnitFactor ==
    (IsPeriodic /\ options.zoomFactor = I(1)) => C19_RangeFitFits

(* The violations the specification lists for a subdivision configuration. *)
ListedViolation(o) ==
    \/ Gt(o.breakpoints[1], o.breakpoints[2])
    \/ Le(o.stretchModulo, I(1))
    \/ Lt(o.initialMagnification, I(0))
    \/ \E i \in 2..Len(o.subdivisionFallout) :
          Ge(o.subdivisionFallout[i], o.subdivisionFallout[i - 1])
    \/ (Len(o.subdivisionFallout) > 0
           /\ Le(o.subdivisionFallout[Len(o.subdivisionFallout)], I(0)))
    \/ (Len(o.subdivisionFallout) > 0
           /\ Gt(o.subdivisionFallout[1], o.baseUnitValue))

(* C20: subdivision design: construction fails for each listed violation    *)
(* (breakpoints lower bound > upper bound, stretchModulo <= 1,              *)
(* initialMagnification < 0, subdivisionFallout not strictly descending,    *)
(* last subdivision <= 0, first subdivision > baseUnitValue) and succeeds   *)
(* only when none of them holds.                                            *)
C20_ConstructorValidates ==
    (design = "subdivision" /\ call.op = "constructor")
    => (call.threw <=> ListedViolation(options))

(* C20 without the order of the breakpoints. *)
C20_ConstructorValidatesButBreakpoints ==
    (design = "subdivision" /\ call.op = "constructor"
        /\ Le(options.breakpoints[1], options.breakpoints[2]))
    => (call.threw <=> ListedViolation(options))

(* The step value with the sign of x: (floor(x/period) + 1) * height for    *)
(* x >= 0 and -(floor(|x|/period) + 1) * height for x < 0.                  *)
SignedStep(x, height, period) ==
    IF Ge(x, I(0)) THEN Mul(Add(Floor(Div(x, period)), I(1)), height)
    ELSE Neg(Mul(Add(Floor(Div(MathAbs(x), period)), I(1)), height))

(* C21: staircase(x, height, period) is (floor(x/period) + 1) * height for  *)
(* x >= 0 and the negated step value for x < 0; here x is the magnification *)
(* of a periodic line, whose unitValue is                                   *)
(* staircase(magnification, zoomFactor, zoomPeriod).                        *)
C21_StaircaseSigned ==
    IsPeriodic
    => /\ nl.unitValue = staircase(nl.magnification, options.zoomFactor,
                                   options.zoomPeriod)
       /\ staircase(nl.magnification, options.zoomFactor, options.zoomPeriod)
              = SignedStep(nl.magnification, options.zoomFactor, options.zoomPeriod)

(* C21 for x >= 0 alone. *)
C21_StaircaseNonNegative ==
    (IsPeriodic /\ Ge(nl.magnification, I(0))) => C21_StaircaseSigned

(* C22: baseCoverage design: for every configuration (baseCoverage equal to *)
(* baseLength or not) and startValue < endValue, after                      *)
(* rangeFit(startValue, endValue) firstValue is startValue and lastValue is *)
(* endValue.                                                                *)
C22_RangeFitEnds ==
    (IsCall("baseCoverage", "rangeFit") /\ Lt(call.startValue, call.endValue))
    => /\ ~call.threw
       /\ Dist_firstValue(options, nl) = call.startValue
       /\ Dist_lastValue(options, nl) = call.endValue

(* C22 for baseCoverage = baseLength alone. *)
C22_RangeFitEndsEqualBase ==
    (IsBaseCoverage /\ options.baseCoverage = options.baseLength)
    => C22_RangeFitEnds

(* C23: periodic design: zoomAround(p, a) followed by zoomAround(p, b)      *)
(* leaves the same magnification, unitLength, unitValue and displacement as *)
(* the single zoomAround(p, a + b) from the state before the first call,    *)
(* and so does a third call zoomAround(p, c) with a + b + c.  The first     *)
(* call is the recorded one; the later ones are applied to its result.      *)
C23_ZoomComposes ==
    (IsPeriodic /\ call.op = "zoomAround") =>
        \A b \in ZoomDeltas :
            /\ Per_zoomAround(options, nl, call.position, b)
                   = Per_zoomAround(options, call.pre, call.position,
                                    Add(call.by, b))
            /\ \A c \in ZoomDeltas :
                   Per_zoomAround(options,
                       Per_zoomAround(options, nl, call.position, b),
                       call.position, c)
                       = Per_zoomAround(options, call.pre, call.position,
                                        Add(Add(call.by, b), c))

(* A zoomAround from a displaced line whose two further calls pass through  *)
(* three different unit values.                                             *)
C23_Witness ==
    /\ IsPeriodic
    /\ call.op = "zoomAround"
    /\ call.pre.displacement # I(0)
    /\ nl.unitValue # call.pre.unitValue
    /\ \E b \in ZoomDeltas :
          /\ Per_zoomAround(options, nl, call.position, b).unitValue # nl.unitValue
          /\ Per_zoomAround(options, nl, call.position, b).displacement
                 # nl.displacement

(* Magnifications a zoomTo is compared with. *)
OtherMagnifications == {I(-6), I(-5), I(-1), I(0), I(1), Q(7, 2), I(6)}

(* The unit value zoomTo(m) would leave. *)
UnitValueAt(m) == Per_zoomTo(options, call.pre, m).unitValue

C24_WitnessPositive ==
    /\ IsPeriodic
    /\ call.op = "zoomTo"
    /\ Gt(call.magnification, I(0))
    /\ Gt(nl.unitValue, UnitValueAt(I(0)))

(* C25: subdivision design: in every reachable state the unitLength and     *)
(* unitValue accessors return what computeScale yields for the current      *)
(* magnification, so that valueAt, locationOf and buildViewModel never      *)
(* change what the accessors return.                                        *)
C25_AccessorsFollowScaleLaw ==
    IsSubdivision =>
        /\ Sub_unitLength(nl) = Sub_unitLength(Sub_computeScale(options, nl))
        /\ Sub_unitValue(nl) = Sub_unitValue(Sub_computeScale(options, nl))
        /\ (call.op \in Queries
               => /\ Sub_unitLength(nl) = Sub_unitLength(call.pre)
                  /\ Sub_unitValue(nl) = Sub_unitValue(call.pre))

(* C26: buildViewModel(length) terminates and returns a finite list of tick *)
(* marks for every accepted configuration, a lower breakpoint of 0 (unit    *)
(* length and tick gap 0) included, every reachable state and every finite  *)
(* length: the loop bound totalTicks is never Infinity.                     *)
C26_ViewTerminates ==
    (IsView("subdivision") \/ IsView("periodic")) =>
        /\ call.ret.terminates
        /\ Len(call.ret.tickMarks) \in Nat

(* A view of a displaced subdivision line whose tick gap is 0: no tick. *)
C26_Witness ==
    /\ IsView("subdivision")
    /\ call.ret.gap = I(0)
    /\ nl.displacement # I(0)
    /\ call.ret.terminates
    /\ Len(call.ret.tickMarks) = 0

(* The same for the periodic design, from a negative displacement. *)
C26_WitnessPeriodic ==
    /\ IsView("periodic")
    /\ call.ret.gap = I(0)
    /\ Lt(nl.displacement, I(0))
    /\ call.ret.terminates
    /\ Len(call.ret.tickMarks) = 0

(* A view of a periodic line whose displacement is infinite. *)
C26_WitnessInfinite ==
    /\ IsView("periodic")
    /\ ~IsFinite(nl.displacement)
    /\ call.ret.terminates

(* C3 for the configurations whose lower breakpoint is not 0. *)
C3_ZoomAnchoredPositiveLength ==
    (IsPeriodic /\ options.breakpointLowerbound # I(0)) => C3_ZoomAnchored

(* C12 for the configurations whose lower breakpoint is not 0. *)
C12_PeriodicGridPositiveLength ==
    (IsPeriodic /\ options.breakpointLowerbound # I(0)) => C12_PeriodicGrid

(* C23 for the configurations whose lower breakpoint is not 0. *)
C23_ZoomComposesPositiveLength ==
    (IsPeriodic /\ options.breakpointLowerbound # I(0)) => C23_ZoomComposes

(* The place in the log h of the last successful zoomAround, 0 if none. *)
LastZoom(h) ==
    IF \E i \in 1..Len(h) : h[i].op = "zoomAround"
    THEN CHOOSE i \in 1..Len(h) :
            /\ h[i].op = "zoomAround"
            /\ \A j \in (i + 1)..Len(h) : h[j].op # "zoomAround"
    ELSE 0

(* moveBy was called after the last successful zoomAround of h. *)
MovedSince(h) ==
    \E j \in (LastZoom(h) + 1)..Len(h) : h[j].op = "moveBy"

(* strechToFit or rangeFit took effect after the last successful            *)
(* zoomAround of h.                                                         *)
FittedSince(h) ==
    \E j \in (LastZoom(h) + 1)..Len(h) :
        h[j].op \in {"strechToFit", "rangeFit"}

(* A successful zoomAround at address that arrives in regime continues the  *)
(* run of the last successful zoomAround of h: same address, no moveBy      *)
(* since, the same regime other than 'above'.                               *)
RunContinues(h, address, regime) ==
    /\ LastZoom(h) > 0
    /\ ~MovedSince(h)
    /\ h[LastZoom(h)].address = address
    /\ h[LastZoom(h)].regime = regime
    /\ regime # "above"

(* The value passed by the first call of the run the last successful        *)
(* zoomAround of h belongs to.                                              *)
RECURSIVE RunValue(_)
RunValue(h) ==
    IF LastZoom(h) = 0 THEN NaN
    ELSE IF RunContinues(SubSeq(h, 1, LastZoom(h) - 1),
                         h[LastZoom(h)].address, h[LastZoom(h)].regime)
    THEN RunValue(SubSeq(h, 1, LastZoom(h) - 1))
    ELSE h[LastZoom(h)].value

(* The displacement zoomAround(value, address, delta) leaves on s0 before   *)
(* any cursor-sync correction: shifted by after - before unless the regime  *)
(* arrived at is 'above'.                                                   *)
Sub_shiftedDisplacement(s0, value, delta) ==
    LET s1 == Sub_computeScale(options,
                  [s0 EXCEPT !.magnification = Add(s0.magnification, delta)])
    IN  Sub_zoomShift(s1, Sub_unitScaleCategory(options, s1.magnification),
                      Sub_locationOf(options, s0, value, FALSE).ret,
                      Sub_locationOfScaled(s1, value, FALSE)).displacement

(* The correction (value - lastValue) * unitLength / unitValue on s. *)
Sub_correction(s, value, lastValue) ==
    Mul(Div(Sub(value, lastValue), s.unitValue), s.unitLength)

(* A step that is a zoomAround call of the subdivision design. *)
ZoomAroundCalled ==
    /\ IsSubdivision
    /\ steps' = steps + 1
    /\ call'.op = "zoomAround"

(* C27: subdivision design, cursor-sync of zoomAround: the correction       *)
(* (value - lastValue) * unitLength / unitValue is applied exactly when the *)
(* call succeeds, a previous successful zoomAround recorded the same        *)
(* address, no moveBy happened since and the regime after the call is the   *)
(* same regime other than 'above' as after the previous call, lastValue     *)
(* staying the value of the first call of the run; it is not applied on     *)
(* the first zoomAround, after a moveBy, after a regime change or at a      *)
(* different address, where the passed value and address become the record. *)
C27_CursorSync ==
    [][ZoomAroundCalled =>
        IF ~call'.ret
        THEN /\ nl'.displacement = nl.displacement
             /\ nl'.lastZoomValue = nl.lastZoomValue
             /\ nl'.lastZoomAddress = nl.lastZoomAddress
        ELSE IF RunContinues(history, call'.address,
                             Sub_unitScaleCategory(options, nl'.magnification))
        THEN /\ nl'.displacement
                    = Sub(Sub_shiftedDisplacement(nl, call'.value, call'.delta),
                          Sub_correction(nl', call'.value, RunValue(history)))
             /\ nl'.lastZoomValue = RunValue(history)
             /\ nl'.lastZoomAddress = call'.address
        ELSE /\ nl'.displacement
                    = Sub_shiftedDisplacement(nl, call'.value, call'.delta)
             /\ nl'.lastZoomValue = call'.value
             /\ nl'.lastZoomAddress = call'.address
       ]_vars

(* A zoomAround that continued a run with another value than the recorded   *)
(* one: the correction moved the displacement.                              *)
C27_Witness ==
    /\ IsCall("subdivision", "zoomAround")
    /\ call.ret
    /\ RunValue(history) # call.value
    /\ nl.lastZoomValue = RunValue(history)
    /\ nl.displacement # Sub_shiftedDisplacement(call.pre, call.value, call.delta)

(* A zoomAround after a moveBy at the recorded address: no correction. *)
C27_WitnessMoved ==
    /\ IsCall("subdivision", "zoomAround")
    /\ call.ret
    /\ ~call.pre.lastZoomValid
    /\ call.pre.lastZoomAddress = call.address
    /\ call.pre.lastZoomValue # call.value
    /\ nl.lastZoomValue = call.value

(* C28: subdivision design: moveBy, strechToFit and rangeFit between two   *)
(* zoomAround calls each invalidate the cursor-sync record: the next        *)
(* successful zoomAround at the recorded address applies no correction      *)
(* derived from the older call and its own passed value becomes the record. *)
C28_ChangeInvalidates ==
    [][(/\ ZoomAroundCalled
        /\ call'.ret
        /\ LastZoom(history) > 0
        /\ (MovedSince(history) \/ FittedSince(history))
        /\ history[LastZoom(history)].address = call'.address)
       => /\ nl'.displacement
                 = Sub_shiftedDisplacement(nl, call'.value, call'.delta)
          /\ nl'.lastZoomValue = call'.value
      ]_vars

(* The part of C28 that is about moveBy alone. *)
C28_MoveInvalidates ==
    [][(/\ ZoomAroundCalled
        /\ call'.ret
        /\ LastZoom(history) > 0
        /\ MovedSince(history)
        /\ history[LastZoom(history)].address = call'.address)
       => /\ nl'.displacement
                 = Sub_shiftedDisplacement(nl, call'.value, call'.delta)
          /\ nl'.lastZoomValue = call'.value
      ]_vars

(* The unit value computeScale yields at magnification m. *)
ScaledUnitValue(m) ==
    Sub_computeScale(options, [nl EXCEPT !.magnification = m]).unitValue

(* The scale law as the claim words it: baseUnitValue / m below m0 =        *)
(* baseUnitValue / subdivisionFallout[0], subdivisionFallout[k] in the k-th *)
(* stretchModulo-wide band from m0, the last subdivision beyond the bands.  *)
ScaleLaw(o, m) ==
    LET m0 == Div(o.baseUnitValue, o.subdivisionFallout[1])
        k  == Floor(Div(Sub(m, m0), o.stretchModulo))
    IN  IF Lt(m, m0) THEN Div(o.baseUnitValue, m)
        ELSE IF k[1] < Len(o.subdivisionFallout)
        THEN o.subdivisionFallout[k[1] + 1]
        ELSE o.subdivisionFallout[Len(o.subdivisionFallout)]

GridSteps == 18

(* Magnifications 1/2, 1, 3/2, ... *)
GridMagnification(i) == Q(i, 2)

HasFallout == IsSubdivision /\ Constructed /\ Len(options.subdivisionFallout) > 0

(* C29: subdivision design, non-empty subdivisionFallout: the unit value    *)
(* computeScale yields at a magnification m > 0 is the scale law's          *)
(* (baseUnitValue / m below m0, subdivisionFallout[k] in the k-th band, the *)
(* last subdivision beyond), and it never grows with m.  The law depends on *)
(* the options alone, so the grid of magnifications is walked once, on the  *)
(* constructed instance; the magnification the instance is at is held       *)
(* against the law in every state, and against the magnification it was at  *)
(* after every zoomAround.                                                  *)
C29_ScaleLaw ==
    HasFallout =>
       /\ Gt(nl.magnification, I(0)) /\ IsFinite(nl.magnification) =>
             /\ ScaledUnitValue(nl.magnification) = ScaleLaw(options, nl.magnification)
             /\ (call.op = "zoomAround" /\ Gt(call.pre.magnification, I(0))) =>
                   IF Le(call.pre.magnification, nl.magnification)
                   THEN Ge(ScaledUnitValue(call.pre.magnification),
                           ScaledUnitValue(nl.magnification))
                   ELSE Le(ScaledUnitValue(call.pre.magnification),
                           ScaledUnitValue(nl.magnification))
       /\ call.op = "constructor" =>
             /\ \A i \in 1..GridSteps :
                   ScaledUnitValue(GridMagnification(i))
                      = ScaleLaw(options, GridMagnification(i))
             /\ \A i \in 1..(GridSteps - 1) :
                   Ge(ScaledUnitValue(GridMagnification(i)),
                      ScaledUnitValue(GridMagnification(i + 1)))

(* An instance zoomed into the second band of a three-entry fallout, off    *)
(* the grid's band edges.                                                   *)
C29_Witness ==
    /\ HasFallout
    /\ Len(options.subdivisionFallout) = 3
    /\ call.op = "zoomAround"
    /\ call.ret
    /\ Sub_unitScaleCategory(options, nl.magnification) = "within"
    /\ nl.unitValue = options.subdivisionFallout[2]

(* An instance zoomed out below m0. *)
C29_WitnessAbove ==
    /\ HasFallout
    /\ call.op = "zoomAround"
    /\ call.ret
    /\ Sub_unitScaleCategory(options, nl.magnification) = "above"
    /\ Gt(nl.unitValue, options.subdivisionFallout[1])

(* An instance zoomed in beyond the bands. *)
C29_WitnessBeyond ==
    /\ HasFallout
    /\ Ge(Sub_subdivisionIndex(options, nl.magnification),
          I(Len(options.subdivisionFallout)))
    /\ nl.unitValue = options.subdivisionFallout[Len(options.subdivisionFallout)]

(* valueAt(position) of the engine the view was built on, with wrtOrigin    *)
(* false in the subdivision design.                                         *)
ViewValueAt(position) ==
    IF design = "periodic" THEN Per_valueAt(options, nl, position)
    ELSE Sub_valueAt(options, nl, position, FALSE).ret

(* C30: in the view model buildViewModel returns (periodic and subdivision  *)
(* designs), for every sign of the displacement, every tick mark t has      *)
(* t.value = valueAt(t.position), t.height = pattern[t.patternIndex], and   *)
(* consecutive tick values differ by unitValue / pattern length.            *)
C30_TicksOnTheLine ==
    (IsView("periodic") \/ IsView("subdivision")) =>
        /\ \A i \in 1..Len(call.ret.tickMarks) :
              /\ Eq(call.ret.tickMarks[i].value,
                    ViewValueAt(call.ret.tickMarks[i].position))
              /\ call.ret.tickMarks[i].patternIndex \in 0..(Len(options.pattern) - 1)
              /\ call.ret.tickMarks[i].height
                    = options.pattern[call.ret.tickMarks[i].patternIndex + 1]
        /\ \A i \in 1..(Len(call.ret.tickMarks) - 1) :
              Eq(Sub(call.ret.tickMarks[i + 1].value, call.ret.tickMarks[i].value),
                 Div(nl.unitValue, I(Len(options.pattern))))

(* C30 holds on every instance whose unit value is finite. *)
C30_TicksOnTheLineFiniteUnit ==
    IsFinite(nl.unitValue) => C30_TicksOnTheLine


====
